---------------------------- MODULE Spec2Model ----------------------------
(***************************************************************************)
(* Perf-map parser, resolver and process-wide registry of pprof-rs         *)
(* (src/src/backtrace/framehop_unwinder/perfmap.rs).                       *)
(*                                                                         *)
(* Text is modelled as sequences of one-character strings, so that         *)
(* split_whitespace, from_str_radix and join are computed as the code      *)
(* computes them.  usize is scaled down to WordBits bits.                  *)
(***************************************************************************)
EXTENDS Integers, Sequences, FiniteSets, TLC

VARIABLES
    overflow_checks, \* build profile: TRUE = `start + len` panics on overflow
    file,            \* the backing file /tmp/perf-<pid>.map
    should_use,      \* static SHOULD_USE_PERF_MAP
    cell,            \* static PERF_MAP_RESOLVER (once_cell state and content)
    perf_map,        \* the Option<PerfMap> inside the resolver's RwLock
    lock,            \* the RwLock itself: read guards, write guard, poison flag
    debouncer,       \* the file watch: registered?, change seen and not yet sent?
    rx,              \* the mpsc channel from the debouncer to the watcher thread
    watcher,         \* position of the watcher thread
    pc,              \* position of each caller thread
    ret,             \* what each caller's last registry call returned
    loc,             \* each caller's locals inside resolve()/find()
    n_new,           \* history: number of PerfMapResolver::new calls that returned Ok
    n_watchers,      \* history: number of watcher threads ever spawned
    changed,         \* history: the file was written while the watch was registered
    absorbed,        \* history: the watcher loop has received an errored event
    walk             \* the stack walk of Trace::trace in progress

vars == <<overflow_checks, file, should_use, cell, perf_map, lock, debouncer,
          rx, watcher, pc, ret, loc, n_new, n_watchers, changed, absorbed, walk>>

---------------------------------------------------------------------------
(* Bounds of the model *)

WordBits == 4

MaxLines == 2

MaxQueue == 1

WordMax == 2^WordBits - 1

Threads == {"t1", "t2"}

\* No stack walk is in progress.
NoWalk == [pc |-> "idle", cyclic |-> FALSE, len |-> 0, frame |-> 0, calls |-> 0,
           stopped |-> FALSE]

---------------------------------------------------------------------------
(* Text *)

HexDigits == {"0","1","2","3","4","5","6","7","8","9","a","b","c","d","e","f"}

HexVal(c) ==
    CASE c = "0" -> 0  [] c = "1" -> 1  [] c = "2" -> 2  [] c = "3" -> 3
      [] c = "4" -> 4  [] c = "5" -> 5  [] c = "6" -> 6  [] c = "7" -> 7
      [] c = "8" -> 8  [] c = "9" -> 9  [] c = "a" -> 10 [] c = "b" -> 11
      [] c = "c" -> 12 [] c = "d" -> 13 [] c = "e" -> 14 [] c = "f" -> 15

IsWhitespace(c) == c \in {" ", "\t"}

\* str::split_whitespace: the maximal runs of non-whitespace characters.
RECURSIVE SplitFrom(_, _, _)
SplitFrom(s, i, cur) ==
    IF i > Len(s)
    THEN IF cur = <<>> THEN <<>> ELSE <<cur>>
    ELSE IF IsWhitespace(s[i])
         THEN IF cur = <<>>
              THEN SplitFrom(s, i + 1, <<>>)
              ELSE <<cur>> \o SplitFrom(s, i + 1, <<>>)
         ELSE SplitFrom(s, i + 1, Append(cur, s[i]))

SplitWhitespace(s) == SplitFrom(s, 1, <<>>)

\* usize::from_str_radix(_, 16): an optional leading "+", then one or more
\* hexadecimal digits, accumulated with a checked multiply-add.
ParseErr == -1

RECURSIVE Accumulate(_, _, _)
Accumulate(s, i, val) ==
    IF i > Len(s) THEN val
    ELSE IF s[i] \notin HexDigits THEN ParseErr
    ELSE LET v == val * 16 + HexVal(s[i])
         IN  IF v > WordMax THEN ParseErr ELSE Accumulate(s, i + 1, v)

FromStrRadix16(tok) ==
    LET digits == IF tok # <<>> /\ tok[1] = "+" THEN Tail(tok) ELSE tok
    IN  IF digits = <<>> THEN ParseErr ELSE Accumulate(digits, 1, 0)

\* Faulty variant of Join: the tokens are concatenated without a separator.
RECURSIVE JoinNoSeparator(_)
JoinNoSeparator(toks) ==
    IF toks = <<>> THEN <<>> ELSE toks[1] \o JoinNoSeparator(Tail(toks))

\* [&str]::join(" ")
RECURSIVE Join(_)
Join(toks) ==
    IF toks = <<>> THEN <<>>
    ELSE IF Len(toks) = 1 THEN toks[1]
    ELSE toks[1] \o <<" ">> \o Join(Tail(toks))

---------------------------------------------------------------------------
(* PerfMap *)

NoTable == [tag |-> "None", ranges |-> <<>>]

Table(rs) == [tag |-> "Some", ranges |-> rs]

Panicked == [tag |-> "Panic", ranges |-> <<>>]

NoFile == [exists |-> FALSE, lines |-> <<>>]

FileOf(ls) == [exists |-> TRUE, lines |-> ls]

\* `start + len` on usize: exact when it fits; otherwise a panic when the build
\* checks overflow and the wrapped sum when it does not.
AddUsize(a, b, checks) ==
    IF a + b <= WordMax THEN a + b
    ELSE IF checks THEN ParseErr ELSE (a + b) % (2^WordBits)

\* The body of the `for line` loop of PerfMap::new for one line: "None" for an
\* early return through `?`, "Panic" for an overflow panic, else the range.
ParseLine(line, checks) ==
    LET parts == SplitWhitespace(line) IN
    IF Len(parts) < 1 THEN [tag |-> "None"]
    ELSE LET start == FromStrRadix16(parts[1]) IN
    IF start = ParseErr THEN [tag |-> "None"]
    ELSE IF Len(parts) < 2 THEN [tag |-> "None"]
    ELSE LET len == FromStrRadix16(parts[2]) IN
    IF len = ParseErr THEN [tag |-> "None"]
    ELSE LET end == AddUsize(start, len, checks) IN
    IF end = ParseErr THEN [tag |-> "Panic"]
    ELSE [tag |-> "Some",
          range |-> [start |-> start, end |-> end,
                     name |-> Join(SubSeq(parts, 3, Len(parts)))]]

RECURSIVE ParseLines(_, _, _, _)
ParseLines(lines, i, ranges, checks) ==
    IF i > Len(lines) THEN Table(ranges)
    ELSE LET r == ParseLine(lines[i], checks) IN
         IF r.tag = "None" THEN NoTable
         ELSE IF r.tag = "Panic" THEN Panicked
         ELSE ParseLines(lines, i + 1, Append(ranges, r.range), checks)

\* PerfMap::new(path): None when the file cannot be opened.
PerfMapNew(f, checks) ==
    IF ~f.exists THEN NoTable ELSE ParseLines(f.lines, 1, <<>>, checks)

\* Faulty variant of Contains: the upper bound is taken inclusive.
ContainsInclusive(r, addr) == r.start <= addr /\ addr <= r.end

\* The test of PerfMap::find's loop body.
Contains(r, addr) == r.start <= addr /\ addr < r.end

NoName == [some |-> FALSE, name |-> <<>>]

SomeName(n) == [some |-> TRUE, name |-> n]

---------------------------------------------------------------------------
(* The producer of the perf-map file: an external runtime that appends lines *)
(* and may flush a line in pieces.                                           *)

LineA == <<"1", " ", "2", " ", "a">>

LineD == <<"8", " ", "4", " ", "d">>

LineX == <<"f", " ", "2", " ", "x">>

CompleteLines == {LineA, LineD, LineX}

PartialLines == {<<"8">>, <<"8", " ", "4">>}

IsProperPrefix(a, b) == Len(a) < Len(b) /\ SubSeq(b, 1, Len(a)) = a

NoteChange(d) == IF d.watching THEN [d EXCEPT !.pending = TRUE] ELSE d

\* The file holds no line that is l, a beginning of l, or a continuation of l.
NotYetWritten(l) ==
    \A i \in 1..Len(file.lines) :
        /\ file.lines[i] # l
        /\ ~IsProperPrefix(file.lines[i], l)
        /\ ~IsProperPrefix(l, file.lines[i])

\* A new line is started once the last one is complete (creating the file
\* when it does not exist); the producer writes each range once.
ProducerAppend(l) ==
    /\ Len(file.lines) < MaxLines
    /\ IF file.lines = <<>> THEN TRUE ELSE file.lines[Len(file.lines)] \in CompleteLines
    /\ NotYetWritten(l)
    /\ file' = FileOf(Append(file.lines, l))
    /\ debouncer' = NoteChange(debouncer)
    /\ changed' = (changed \/ debouncer.watching)
    /\ UNCHANGED <<overflow_checks, should_use, cell, perf_map, lock, rx, watcher,
                   pc, ret, loc, n_new, n_watchers, absorbed, walk>>

\* More of the last line is flushed.
ProducerExtend(l) ==
    /\ file.lines # <<>>
    /\ IsProperPrefix(file.lines[Len(file.lines)], l)
    /\ file' = FileOf([file.lines EXCEPT ![Len(file.lines)] = l])
    /\ debouncer' = NoteChange(debouncer)
    /\ changed' = (changed \/ debouncer.watching)
    /\ UNCHANGED <<overflow_checks, should_use, cell, perf_map, lock, rx, watcher,
                   pc, ret, loc, n_new, n_watchers, absorbed, walk>>

---------------------------------------------------------------------------
(* The debouncer (notify_debouncer_mini) feeding the channel *)

\* After the debounce interval the coalesced change is sent as Ok(events).
DebouncerSend ==
    /\ debouncer.pending
    /\ Len(rx) < MaxQueue
    /\ rx' = Append(rx, "Ok")
    /\ debouncer' = [debouncer EXCEPT !.pending = FALSE]
    /\ UNCHANGED <<overflow_checks, file, should_use, cell, perf_map, lock, watcher,
                   pc, ret, loc, n_new, n_watchers, changed,
                   absorbed, walk>>

\* The watch backend reports an error: sent as Err(_), beside the events.
DebouncerError ==
    /\ debouncer.watching
    /\ Len(rx) < MaxQueue
    /\ rx' = Append(rx, "Err")
    /\ UNCHANGED <<overflow_checks, file, should_use, cell, perf_map, lock, debouncer,
                   watcher, pc, ret, loc, n_new, n_watchers, changed,
                   absorbed, walk>>

---------------------------------------------------------------------------
(* The RwLock around the snapshot *)

NoLock == [readers |-> {}, writer |-> FALSE, poisoned |-> FALSE]

\* RwLock::write() is granted when no guard is held.
CanWrite == lock.readers = {} /\ ~lock.writer

\* RwLock::read() is granted when no write guard is held.
CanRead == ~lock.writer

---------------------------------------------------------------------------
(* The watcher thread: `for result in rx { ... }` *)

\* `match result { Ok(_events) => { ... } _ => {} }`: a successful event goes
\* on to the reparse, anything else falls through to the next iteration.
AfterEvent(result) == IF result = "Ok" THEN "write" ELSE "recv"

\* `for result in rx`: the next event is taken from the channel.
WatcherRecv ==
    /\ watcher = "recv"
    /\ rx # <<>>
    /\ rx' = Tail(rx)
    /\ watcher' = AfterEvent(Head(rx))
    /\ absorbed' = (absorbed \/ Head(rx) = "Err")
    /\ UNCHANGED <<overflow_checks, file, should_use, cell, perf_map, lock, debouncer,
                   pc, ret, loc, n_new, n_watchers, changed, walk>>

\* `if let Ok(mut perf_map) = thread_perf_map.write()`: the write guard is
\* taken before the right-hand side PerfMap::new(&path) is evaluated.
WatcherLock ==
    /\ watcher = "write"
    /\ IF lock.poisoned
       THEN watcher' = "recv" /\ lock' = lock
       ELSE /\ CanWrite
            /\ lock' = [lock EXCEPT !.writer = TRUE]
            /\ watcher' = "parse"
    /\ UNCHANGED <<overflow_checks, file, should_use, cell, perf_map, debouncer, rx,
                   pc, ret, loc, n_new, n_watchers, changed,
                   absorbed, walk>>

\* `*perf_map = PerfMap::new(&path);` and the drop of the write guard.  A
\* panic inside PerfMap::new unwinds the thread: the guard is dropped while
\* panicking (the lock is poisoned), and so are rx and the debouncer.
WatcherReparse ==
    /\ watcher = "parse"
    /\ LET r == PerfMapNew(file, overflow_checks) IN
       IF r = Panicked
       THEN /\ watcher' = "panicked"
            /\ lock' = [lock EXCEPT !.writer = FALSE, !.poisoned = TRUE]
            /\ debouncer' = [watching |-> FALSE, pending |-> FALSE]
            /\ rx' = <<>>
            /\ perf_map' = perf_map
       ELSE /\ watcher' = "recv"
            /\ lock' = [lock EXCEPT !.writer = FALSE]
            /\ perf_map' = r
            /\ UNCHANGED <<debouncer, rx>>
    /\ UNCHANGED <<overflow_checks, file, should_use, cell, pc, ret, loc, n_new,
                   n_watchers, changed,
                   absorbed, walk>>

---------------------------------------------------------------------------
(* Caller threads *)

NoRet == [kind |-> "-", id |-> 0]

InitRet == [kind |-> "Init", id |-> 0]

NotAvailable == [kind |-> "None", id |-> 0]

CreatingError == [kind |-> "Err", id |-> 0]

Resolver(n) == [kind |-> "Some", id |-> n]

IdleLoc == [addr |-> 0, i |-> 0, res |-> NoName, view |-> NoTable]

EmptyCell == [state |-> "incomplete", id |-> 0]

\* Faulty variant of StoredFlag: the flag is toggled instead of set.
StoredFlagToggled(old) == ~old

\* What SHOULD_USE_PERF_MAP.store(true, Relaxed) leaves in the flag.
StoredFlag(old) == TRUE

\* init_perfmap_resolver()
InitPerfmapResolver(t) ==
    /\ pc[t] = "idle"
    /\ should_use' = StoredFlag(should_use)
    /\ ret' = [ret EXCEPT ![t] = InitRet]
    /\ UNCHANGED <<overflow_checks, file, cell, perf_map, lock, debouncer, rx,
                   watcher, pc, loc, n_new, n_watchers, changed,
                   absorbed, walk>>

\* Faulty variant of LoadFlag: the resolver is handed out whether enabled or not.
LoadFlagIgnored == TRUE

\* SHOULD_USE_PERF_MAP.load(Relaxed).  The flag is one atomic cell: a load
\* returns the value of the latest store in its modification order.
LoadFlag == should_use

\* get_resolver(): the load of the flag and its two branches.
GetResolver(t) ==
    /\ pc[t] = "idle"
    /\ IF LoadFlag
       THEN pc' = [pc EXCEPT ![t] = "get_or_try_init"] /\ ret' = [ret EXCEPT ![t] = NoRet]
       ELSE pc' = pc /\ ret' = [ret EXCEPT ![t] = NotAvailable]
    /\ UNCHANGED <<overflow_checks, file, should_use, cell, perf_map, lock, debouncer,
                   rx, watcher, loc, n_new, n_watchers, changed,
                   absorbed, walk>>

\* Faulty variant of MayInitialize: an initializer may start while another is running.
MayInitializeRacing == cell.state # "complete"

\* OnceCell::get_or_try_init may run the initializer when the cell is empty
\* and no other initializer is running (callers arriving meanwhile block).
MayInitialize == cell.state = "incomplete"

\* OnceCell::get_or_try_init: a full cell is returned as it is.
GetOrTryInitHit(t) ==
    /\ pc[t] = "get_or_try_init"
    /\ cell.state = "complete"
    /\ pc' = [pc EXCEPT ![t] = "idle"]
    /\ ret' = [ret EXCEPT ![t] = Resolver(cell.id)]
    /\ UNCHANGED <<overflow_checks, file, should_use, cell, perf_map, lock, debouncer,
                   rx, watcher, loc, n_new, n_watchers, changed,
                   absorbed, walk>>

\* OnceCell::get_or_try_init: this caller becomes the initializer.
GetOrTryInitRun(t) ==
    /\ pc[t] = "get_or_try_init"
    /\ cell.state # "complete"
    /\ MayInitialize
    /\ cell' = [cell EXCEPT !.state = "running"]
    /\ pc' = [pc EXCEPT ![t] = "touch"]
    /\ UNCHANGED <<overflow_checks, file, should_use, perf_map, lock, debouncer, rx,
                   watcher, ret, loc, n_new, n_watchers, changed,
                   absorbed, walk>>

\* Faulty variant of CellAfterFailure: a failed initializer leaves the cell claimed.
CellLeftRunning == [state |-> "running", id |-> 0]

\* The cell after an initializer that returned Err (or panicked).
CellAfterFailure == EmptyCell

\* Faulty variant of Touched: the file is opened truncating.
TouchedTruncating(f) == FileOf(<<>>)

\* `OpenOptions::new().create(true).write(true).open(path)`: the file is
\* created empty when absent; an existing file is opened and closed again.
Touched(f) == IF f.exists THEN f ELSE FileOf(<<>>)

\* PerfMapResolver::new: `touch(&path)?` succeeds: the file is created empty
\* when absent and left as it is otherwise (no truncate, no append).
NewTouchOk(t) ==
    /\ pc[t] = "touch"
    /\ file' = Touched(file)
    /\ pc' = [pc EXCEPT ![t] = "parse"]
    /\ UNCHANGED <<overflow_checks, should_use, cell, perf_map, lock, debouncer, rx,
                   watcher, ret, loc, n_new, n_watchers, changed,
                   absorbed, walk>>

\* PerfMapResolver::new: `touch(&path)?` fails with Error::CreatingError.
NewTouchErr(t) ==
    /\ pc[t] = "touch"
    /\ cell' = CellAfterFailure
    /\ pc' = [pc EXCEPT ![t] = "idle"]
    /\ ret' = [ret EXCEPT ![t] = CreatingError]
    /\ UNCHANGED <<overflow_checks, file, should_use, perf_map, lock, debouncer, rx,
                   watcher, loc, n_new, n_watchers, changed,
                   absorbed, walk>>

\* PerfMapResolver::new: `Arc::new(RwLock::new(PerfMap::new(&path)))`.  An
\* overflow panic unwinds the caller out of get_or_try_init, which empties the
\* cell again.
NewParse(t) ==
    /\ pc[t] = "parse"
    /\ LET r == PerfMapNew(file, overflow_checks) IN
       IF r = Panicked
       THEN /\ pc' = [pc EXCEPT ![t] = "panicked"]
            /\ cell' = CellAfterFailure
            /\ UNCHANGED <<perf_map, lock>>
       ELSE /\ pc' = [pc EXCEPT ![t] = "create_debouncer"]
            /\ perf_map' = r
            /\ lock' = NoLock
            /\ cell' = cell
    /\ UNCHANGED <<overflow_checks, file, should_use, debouncer, rx, watcher, ret,
                   loc, n_new, n_watchers, changed,
                   absorbed, walk>>

\* PerfMapResolver::new: create_debouncer succeeds (the watch is registered),
\* the watcher thread is spawned and Ok(Self) fills the cell.
NewWatchOk(t) ==
    /\ pc[t] = "create_debouncer"
    /\ debouncer' = [watching |-> TRUE, pending |-> FALSE]
    /\ rx' = <<>>
    /\ watcher' = "recv"
    /\ n_watchers' = n_watchers + 1
    /\ n_new' = n_new + 1
    /\ cell' = [state |-> "complete", id |-> n_new + 1]
    /\ pc' = [pc EXCEPT ![t] = "idle"]
    /\ ret' = [ret EXCEPT ![t] = Resolver(n_new + 1)]
    /\ UNCHANGED <<overflow_checks, file, should_use, perf_map, lock, loc, changed,
                   absorbed, walk>>

\* PerfMapResolver::new: `create_debouncer(tx, &path)?` fails: the snapshot
\* just built is dropped and no thread is spawned.
NewWatchErr(t) ==
    /\ pc[t] = "create_debouncer"
    /\ perf_map' = NoTable
    /\ cell' = CellAfterFailure
    /\ pc' = [pc EXCEPT ![t] = "idle"]
    /\ ret' = [ret EXCEPT ![t] = CreatingError]
    /\ UNCHANGED <<overflow_checks, file, should_use, lock, debouncer, rx, watcher,
                   loc, n_new, n_watchers, changed,
                   absorbed, walk>>

\* resolver.resolve(addr) on the resolver get_resolver() returned.
ResolveCall(t, a) ==
    /\ pc[t] = "idle"
    /\ ret[t].kind = "Some"
    /\ pc' = [pc EXCEPT ![t] = "read"]
    /\ loc' = [loc EXCEPT ![t] = [IdleLoc EXCEPT !.addr = a]]
    /\ UNCHANGED <<overflow_checks, file, should_use, cell, perf_map, lock, debouncer,
                   rx, watcher, ret, n_new, n_watchers, changed,
                   absorbed, walk>>

\* `self.perf_map.read()`: Err on a poisoned lock (resolve returns None),
\* else a read guard on the snapshot.
ResolveRead(t) ==
    /\ pc[t] = "read"
    /\ CanRead
    /\ IF lock.poisoned
       THEN /\ pc' = [pc EXCEPT ![t] = "done"]
            /\ loc' = [loc EXCEPT ![t].view = perf_map, ![t].res = NoName]
            /\ lock' = lock
       ELSE /\ pc' = [pc EXCEPT ![t] = "find"]
            /\ loc' = [loc EXCEPT ![t].view = perf_map, ![t].i = 1]
            /\ lock' = [lock EXCEPT !.readers = @ \cup {t}]
    /\ UNCHANGED <<overflow_checks, file, should_use, cell, perf_map, debouncer, rx,
                   watcher, ret, n_new, n_watchers, changed,
                   absorbed, walk>>

\* One iteration of PerfMap::find's loop over the snapshot behind the guard
\* (or the `else { None }` of resolve when the snapshot is None); the guard
\* is dropped when resolve returns.
ResolveFind(t) ==
    /\ pc[t] = "find"
    /\ LET i == loc[t].i
           a == loc[t].addr
           finish(res) ==
               /\ pc' = [pc EXCEPT ![t] = "done"]
               /\ loc' = [loc EXCEPT ![t].res = res]
               /\ lock' = [lock EXCEPT !.readers = @ \ {t}]
       IN  IF perf_map.tag # "Some" \/ i > Len(perf_map.ranges)
           THEN finish(NoName)
           ELSE IF Contains(perf_map.ranges[i], a)
                THEN finish(SomeName(perf_map.ranges[i].name))
                ELSE /\ loc' = [loc EXCEPT ![t].i = i + 1]
                     /\ UNCHANGED <<pc, lock>>
    /\ UNCHANGED <<overflow_checks, file, should_use, cell, perf_map, debouncer, rx,
                   watcher, ret, n_new, n_watchers, changed,
                   absorbed, walk>>

\* The caller has consumed the Option<PerfMapSymbol>.
ResolveReturn(t) ==
    /\ pc[t] = "done"
    /\ pc' = [pc EXCEPT ![t] = "idle"]
    /\ loc' = [loc EXCEPT ![t] = IdleLoc]
    /\ UNCHANGED <<overflow_checks, file, should_use, cell, perf_map, lock, debouncer,
                   rx, watcher, ret, n_new, n_watchers, changed,
                   absorbed, walk>>

---------------------------------------------------------------------------
(* The program *)

ResolveAddrs == {1, 9}

Init ==
    /\ overflow_checks \in BOOLEAN
    /\ file = NoFile
    /\ should_use = FALSE
    /\ cell = EmptyCell
    /\ perf_map = NoTable
    /\ lock = NoLock
    /\ debouncer = [watching |-> FALSE, pending |-> FALSE]
    /\ rx = <<>>
    /\ watcher = "none"
    /\ pc = [t \in Threads |-> "idle"]
    /\ ret = [t \in Threads |-> NoRet]
    /\ loc = [t \in Threads |-> IdleLoc]
    /\ n_new = 0
    /\ n_watchers = 0
    /\ changed = FALSE
    /\ absorbed = FALSE
    /\ walk = NoWalk

Producer ==
    \E l \in CompleteLines \cup PartialLines : ProducerAppend(l) \/ ProducerExtend(l)

Registry(t) ==
    \/ InitPerfmapResolver(t)
    \/ GetResolver(t)
    \/ GetOrTryInitHit(t)
    \/ GetOrTryInitRun(t)
    \/ NewTouchOk(t)
    \/ NewTouchErr(t)
    \/ NewParse(t)
    \/ NewWatchOk(t)
    \/ NewWatchErr(t)

Resolve(t) ==
    \/ \E a \in ResolveAddrs : ResolveCall(t, a)
    \/ ResolveRead(t)
    \/ ResolveFind(t)
    \/ ResolveReturn(t)

Watcher == WatcherRecv \/ WatcherLock \/ WatcherReparse

Debouncer == DebouncerSend \/ DebouncerError

Next ==
    \/ Producer
    \/ Debouncer
    \/ Watcher
    \/ \E t \in Threads : Registry(t) \/ Resolve(t)

Spec == Init /\ [][Next]_vars

---------------------------------------------------------------------------
(* PerfMap::find alone: a resolver constructed over every file of up to      *)
(* MaxFindLines lines of FindLines, looked up at every address.              *)

MaxFindLines == 3

FindLines ==
    { <<"1", " ", "2", " ", "a">>,      \* [1, 3)  a
      <<"2", " ", "4", " ", "b">>,      \* [2, 6)  b, overlaps a
      <<"0", " ", "3", " ", "c">>,      \* [0, 3)  c, overlaps a and b
      <<"3", " ", "0", " ", "e">>,      \* [3, 3)  e, empty
      <<"f", " ", "2", " ", "x">> }     \* 15 + 2

SeqsUpTo(S, n) == UNION { [1..k -> S] : k \in 0..n }

InitFind ==
    /\ overflow_checks \in BOOLEAN
    /\ file \in { FileOf(ls) : ls \in SeqsUpTo(FindLines, MaxFindLines) }
    /\ perf_map = PerfMapNew(file, overflow_checks)
    /\ perf_map # Panicked
    /\ should_use = TRUE
    /\ cell = [state |-> "complete", id |-> 1]
    /\ lock = NoLock
    /\ debouncer = [watching |-> TRUE, pending |-> FALSE]
    /\ rx = <<>>
    /\ watcher = "recv"
    /\ pc = [t \in Threads |-> "idle"]
    /\ ret = [t \in Threads |-> Resolver(1)]
    /\ loc = [t \in Threads |-> IdleLoc]
    /\ n_new = 1
    /\ n_watchers = 1
    /\ changed = FALSE
    /\ absorbed = FALSE
    /\ walk = NoWalk

NextFind ==
    \/ \E a \in 0..WordMax : ResolveCall("t1", a)
    \/ ResolveRead("t1")
    \/ ResolveFind("t1")
    \/ ResolveReturn("t1")

SpecFind == InitFind /\ [][NextFind]_vars

\* The name of the first range, in stored order, that holds addr.
FirstMatch(ranges, addr) ==
    LET hits == { i \in 1..Len(ranges) :
                    ranges[i].start <= addr /\ addr < ranges[i].end }
    IN  IF hits = {} THEN NoName
        ELSE SomeName(ranges[CHOOSE i \in hits : \A j \in hits : i <= j].name)

\* C3 (lookup correctness): when find has returned for addr, its result is the
\* name of the first range in stored order with start <= addr < end, and absent
\* when no range holds addr (addr = start matches, addr = end does not).
C3_LookupCorrectness ==
    \A t \in Threads :
        pc[t] = "done" => loc[t].res = FirstMatch(perf_map.ranges, loc[t].addr)

\* find returned the name of an earlier range although a later range with a
\* different name and a lower start holds addr too.
C3_Witness ==
    \E t \in Threads :
        /\ pc[t] = "done"
        /\ \E i, j \in 1..Len(perf_map.ranges) :
              /\ i < j
              /\ perf_map.ranges[j].start < perf_map.ranges[i].start
              /\ perf_map.ranges[i].start = loc[t].addr
              /\ perf_map.ranges[j].start <= loc[t].addr
              /\ loc[t].addr < perf_map.ranges[j].end
              /\ perf_map.ranges[i].name # perf_map.ranges[j].name
              /\ loc[t].res = SomeName(perf_map.ranges[i].name)

---------------------------------------------------------------------------
(* PerfMap::new alone: the initial parse of PerfMapResolver::new over every  *)
(* file of up to MaxParseLines lines of ParseLineSet.                        *)

MaxParseLines == 2

ParseLineSet ==
    { <<"1", " ", "2", " ", "a">>,
      <<"2", " ", "4", " ", "b", " ", "c">>,    \* a name with a space
      <<>>,                                      \* an empty line
      <<"8">>,                                   \* start only
      <<"8", " ", "4">>,                         \* start and length only
      <<"g", " ", "1", " ", "y">>,               \* start is not hexadecimal
      <<"1", " ", "g", " ", "y">>,               \* length is not hexadecimal
      <<"1", "0", " ", "1", " ", "z">>,          \* two-digit start
      <<"f", " ", "2", " ", "x">> }              \* 15 + 2

InitParse ==
    /\ overflow_checks \in BOOLEAN
    /\ file \in {NoFile} \cup { FileOf(ls) : ls \in SeqsUpTo(ParseLineSet, MaxParseLines) }
    /\ should_use = TRUE
    /\ cell = [state |-> "running", id |-> 0]
    /\ perf_map = NoTable
    /\ lock = NoLock
    /\ debouncer = [watching |-> FALSE, pending |-> FALSE]
    /\ rx = <<>>
    /\ watcher = "none"
    /\ pc = [t \in Threads |-> IF t = "t1" THEN "parse" ELSE "idle"]
    /\ ret = [t \in Threads |-> NoRet]
    /\ loc = [t \in Threads |-> IdleLoc]
    /\ n_new = 0
    /\ n_watchers = 0
    /\ changed = FALSE
    /\ absorbed = FALSE
    /\ walk = NoWalk

NextParse == NewParse("t1")

SpecParse == InitParse /\ [][NextParse]_vars

IsHex(tok) == tok # <<>> /\ \A i \in 1..Len(tok) : tok[i] \in HexDigits

\* A line that lacks one of the three fields, or whose start or length is
\* not a hexadecimal number.
MalformedLine(line) ==
    LET fields == SplitWhitespace(line)
    IN  IF Len(fields) < 3 THEN TRUE
        ELSE ~IsHex(fields[1]) \/ ~IsHex(fields[2])

\* C4 (malformed-line rejection): when PerfMap::new has returned for a file
\* with a malformed line, it has returned "no table", whatever the other lines.
C4_MalformedLineRejection ==
    \A t \in Threads :
        ( /\ pc[t] = "create_debouncer"
          /\ \E i \in 1..Len(file.lines) : MalformedLine(file.lines[i]) )
        => perf_map = NoTable

---------------------------------------------------------------------------
(* Claims about the resolver, the watcher and the registry, under Spec *)

\* C1 (atomic visibility): when resolve(addr) returns, its answer is the
\* lookup of addr in exactly one complete snapshot, the one the resolver held
\* when the call took its read view (the old table or the new one, never a mix
\* and never a partial table).
C1_AtomicVisibility ==
    \A t \in Threads :
        pc[t] = "done" => loc[t].res = FirstMatch(loc[t].view.ranges, loc[t].addr)

\* C2 (resolve does not block on a reparse): while the watcher thread is
\* inside its reparse (the file is still to be read and parsed), a resolve()
\* call waiting for its read view can take it.
C2_ResolveNotBlockedByReparse ==
    \A t \in Threads :
        (pc[t] = "read" /\ watcher = "parse") => ENABLED ResolveRead(t)

\* Nothing is in flight between the file and the snapshot: no change waits in
\* the debouncer, no event in the channel, and the watcher is not handling one.
Settled ==
    /\ cell.state = "complete"
    /\ ~debouncer.pending
    /\ rx = <<>>
    /\ watcher \notin {"write", "parse"}

\* C5 (eventual consistency): once the file has been changed after the
\* resolver was constructed and every resulting event has been delivered and
\* handled, the snapshot is the parse of the file's content.
C5_EventualConsistency ==
    (Settled /\ changed) => perf_map = PerfMapNew(file, overflow_checks)

\* C6 (at-most-once construction): PerfMapResolver::new has succeeded at most
\* once, at most one watcher thread was ever spawned, and every resolver a
\* get_resolver() call returned is the one instance held by the cell.
C6_AtMostOnceConstruction ==
    /\ n_new <= 1
    /\ n_watchers <= 1
    /\ \A t \in Threads :
          ret[t].kind = "Some" => cell = [state |-> "complete", id |-> ret[t].id]

\* Two get_resolver() calls have returned a resolver.
C6_Witness ==
    /\ n_new = 1
    /\ \A t \in Threads : ret[t].kind = "Some"

\* The registry, the resolver and the watch as they are before construction.
NothingConstructed ==
    /\ cell = EmptyCell
    /\ perf_map = NoTable
    /\ lock = NoLock
    /\ debouncer = [watching |-> FALSE, pending |-> FALSE]
    /\ rx = <<>>
    /\ watcher = "none"
    /\ n_new = 0
    /\ n_watchers = 0

\* C7 (get before enable): while init_perfmap_resolver() has not been called,
\* a get_resolver() call returns "not available" (not an error) and changes
\* nothing: no resolver, no file, no watch, no watcher thread.
C7_GetBeforeInit ==
    /\ [](~should_use =>
            /\ NothingConstructed
            /\ \A t \in Threads : pc[t] = "idle" /\ ret[t].kind \in {"-", "None"})
    /\ [][\A t \in Threads :
            (GetResolver(t) /\ ~should_use) =>
                /\ ret'[t] = NotAvailable
                /\ UNCHANGED <<file, should_use, cell, perf_map, lock, debouncer, rx,
                               watcher, pc, n_new, n_watchers>>]_vars

\* Both callers have called get_resolver() before any enable call.
C7_Witness ==
    /\ ~should_use
    /\ \A t \in Threads : ret[t] = NotAvailable

\* C8 (idempotent, non-constructing enable): an init_perfmap_resolver() call
\* returns normally, leaves the flag set and constructs nothing; called with
\* the flag already set it leaves the whole shared state as it was, so every
\* later get_resolver() behaves as after a single call.
C8_IdempotentEnable ==
    [][\A t \in Threads :
          InitPerfmapResolver(t) =>
              /\ should_use'
              /\ ret'[t] = InitRet
              /\ UNCHANGED <<file, cell, perf_map, lock, debouncer, rx, watcher, pc,
                             n_new, n_watchers>>
              /\ should_use => UNCHANGED should_use]_vars

\* init_perfmap_resolver() has been called twice, the second time after a
\* resolver was constructed.
C8_Witness ==
    /\ should_use
    /\ cell.state = "complete"
    /\ \A t \in Threads : ret[t] = InitRet

\* C9 (construction failure is surfaced and does not poison): a get_resolver()
\* call whose PerfMapResolver::new fails returns the construction error and
\* leaves the cell empty with no watcher thread; while the cell is empty no
\* watcher runs and a waiting get_resolver() call may construct again; a
\* construction that succeeds returns the resolver it put in the cell.
C9_ConstructionFailureNotPoisoning ==
    /\ [](cell.state = "incomplete" =>
            /\ watcher = "none" /\ n_watchers = 0 /\ ~debouncer.watching
            /\ \A t \in Threads :
                  pc[t] = "get_or_try_init" => ENABLED GetOrTryInitRun(t))
    /\ [][\A t \in Threads :
            /\ (NewTouchErr(t) \/ NewWatchErr(t)) =>
                  /\ ret'[t] = CreatingError
                  /\ cell' = EmptyCell
                  /\ watcher' = "none" /\ n_watchers' = 0 /\ ~debouncer'.watching
            /\ NewWatchOk(t) =>
                  /\ ret'[t].kind = "Some"
                  /\ cell' = [state |-> "complete", id |-> ret'[t].id]]_vars

\* One get_resolver() call returned the construction error and a later one
\* returned the resolver.
C9_Witness ==
    \E t, u \in Threads :
        /\ ret[t] = CreatingError
        /\ ret[u].kind = "Some"
        /\ cell.state = "complete"

HasMalformedLine(f) == \E i \in 1..Len(f.lines) : MalformedLine(f.lines[i])

\* C10 (parse failure degrades to "no table"): an initial parse of malformed
\* content still lets construction go on, with a no-table snapshot; a reparse
\* of malformed content leaves the snapshot no-table and the watcher running;
\* resolve() on a no-table snapshot returns no match; and a reparse of
\* well-formed content installs that content's table.
C10_ParseFailureDegrades ==
    /\ [](\A t \in Threads :
            (pc[t] = "done" /\ loc[t].view = NoTable) => loc[t].res = NoName)
    /\ [][/\ \A t \in Threads :
               (NewParse(t) /\ HasMalformedLine(file)) =>
                   perf_map' = NoTable /\ pc'[t] = "create_debouncer"
          /\ (WatcherReparse /\ HasMalformedLine(file)) =>
                 perf_map' = NoTable /\ watcher' = "recv"
          /\ (WatcherReparse /\ ~HasMalformedLine(file)) =>
                 perf_map'.tag = "Some" /\ watcher' = "recv"]_vars


---------------------------------------------------------------------------
(* C11: errored watch events *)

\* C11 (transient watch errors are absorbed): when the watcher loop receives
\* an errored event the snapshot, the lock and the file stay as they are and
\* the loop goes on to its next iteration; every successful change event that
\* the loop takes up afterwards is handled by a reparse whose result replaces
\* the snapshot, after which the loop waits for the next event.
C11_WatchErrorsAbsorbed ==
    /\ [][(WatcherRecv /\ Head(rx) = "Err") =>
            /\ watcher' = "recv"
            /\ UNCHANGED <<file, should_use, cell, perf_map, lock, debouncer>>]_vars
    /\ [][(absorbed /\ WatcherRecv /\ Head(rx) = "Ok") => watcher' = "write"]_vars
    /\ [][(absorbed /\ WatcherReparse) =>
            /\ PerfMapNew(file, overflow_checks) # Panicked
            /\ perf_map' = PerfMapNew(file, overflow_checks)
            /\ watcher' = "recv"]_vars

---------------------------------------------------------------------------
(* C12: PerfMap::new on files serialised from lists of ranges *)

MaxTriples == 2

RtStarts == {1, 4, 10}

RtLens == {2, 3}

RtNames ==
    { <<>>,                       \* the empty name
      <<"a">>,
      <<"b", " ", "c">>,          \* one space inside
      <<"b", " ", " ", "c">>,     \* two spaces inside
      <<" ", "d">> }              \* a space in front

RtTriples == [start : RtStarts, len : RtLens, name : RtNames]

\* The ranges of a list lie inside the address space and are pairwise disjoint.
NonOverlapping(ts) ==
    /\ \A i \in 1..Len(ts) : ts[i].start + ts[i].len <= WordMax
    /\ \A i, j \in 1..Len(ts) :
          i < j => \/ ts[i].start + ts[i].len <= ts[j].start
                   \/ ts[j].start + ts[j].len <= ts[i].start

HexDigitOf(d) == CHOOSE c \in {"0", "1", "2", "3", "4", "5", "6", "7", "8", "9",
                               "a", "b", "c", "d", "e", "f"} : HexVal(c) = d

\* A number written in lowercase hexadecimal without prefix.
RECURSIVE ToHex(_)
ToHex(n) == IF n < 16 THEN <<HexDigitOf(n)>>
            ELSE ToHex(n \div 16) \o <<HexDigitOf(n % 16)>>

\* The line "<start-hex> <length-hex> <name>" of one triple.
Serialise(tr) == ToHex(tr.start) \o <<" ">> \o ToHex(tr.len) \o <<" ">> \o tr.name

InitRoundTrip ==
    /\ overflow_checks \in BOOLEAN
    /\ file \in { FileOf([i \in 1..Len(ts) |-> Serialise(ts[i])]) :
                    ts \in { us \in SeqsUpTo(RtTriples, MaxTriples) : NonOverlapping(us) } }
    /\ should_use = TRUE
    /\ cell = [state |-> "running", id |-> 0]
    /\ perf_map = NoTable
    /\ lock = NoLock
    /\ debouncer = [watching |-> FALSE, pending |-> FALSE]
    /\ rx = <<>>
    /\ watcher = "none"
    /\ pc = [t \in Threads |-> IF t = "t1" THEN "parse" ELSE "idle"]
    /\ ret = [t \in Threads |-> NoRet]
    /\ loc = [t \in Threads |-> IdleLoc]
    /\ n_new = 0
    /\ n_watchers = 0
    /\ changed = FALSE
    /\ absorbed = FALSE
    /\ walk = NoWalk

NextRoundTrip == NewParse("t1")

SpecRoundTrip == InitRoundTrip /\ [][NextRoundTrip]_vars

\* Line i of the parsed file came from triple tr and entry i of the table is
\* (start, start + length, name) of that triple.
Recovered(i, tr) ==
    file.lines[i] = Serialise(tr) =>
        perf_map.ranges[i] = [start |-> tr.start, end |-> tr.start + tr.len,
                              name |-> tr.name]

IsSingleSpaced(name) ==
    \A i \in 1..Len(name) :
        IsWhitespace(name[i]) =>
            /\ name[i] = " "
            /\ 1 < i /\ i < Len(name)
            /\ ~IsWhitespace(name[i + 1])

---------------------------------------------------------------------------
(* C13: Trace::trace of the backtrace-rs backend *)

MaxFrames == 3

MaxVisits == 5

\* `Trace::trace(_, cb)` is entered.  The context argument is ignored; the
\* frames walked are those the platform unwinder finds on the calling
\* thread's stack: a chain of len frames that ends, or one whose last frame
\* leads back to the first.
TraceCall(cyc, n) ==
    /\ walk.pc \in {"idle", "returned"}
    /\ walk' = [pc |-> "walking", cyclic |-> cyc, len |-> n, frame |-> 1, calls |-> 0,
                stopped |-> FALSE]
    /\ UNCHANGED <<overflow_checks, file, should_use, cell, perf_map, lock, debouncer,
                   rx, watcher, pc, ret, loc, n_new, n_watchers, changed, absorbed>>

\* `backtrace::trace_unsynchronized(cb)`: cb is called on the next frame and
\* its answer decides whether the walk goes on; nothing else in trace() ends
\* the walk.  The calls are counted up to MaxVisits.
TraceVisit(keep) ==
    /\ walk.pc = "walking"
    /\ ~walk.stopped
    /\ walk.frame <= walk.len
    /\ walk' = [walk EXCEPT
                  !.calls = IF @ < MaxVisits THEN @ + 1 ELSE @,
                  !.stopped = ~keep,
                  !.frame = IF ~keep THEN @
                            ELSE IF @ = walk.len /\ walk.cyclic THEN 1 ELSE @ + 1]
    /\ UNCHANGED <<overflow_checks, file, should_use, cell, perf_map, lock, debouncer,
                   rx, watcher, pc, ret, loc, n_new, n_watchers, changed, absorbed>>

\* trace_unsynchronized returns: cb answered false, or no frame is left.
TraceReturn ==
    /\ walk.pc = "walking"
    /\ walk.stopped \/ walk.frame > walk.len
    /\ walk' = [walk EXCEPT !.pc = "returned"]
    /\ UNCHANGED <<overflow_checks, file, should_use, cell, perf_map, lock, debouncer,
                   rx, watcher, pc, ret, loc, n_new, n_watchers, changed, absorbed>>

InitTrace == Init

NextTrace ==
    \/ \E cyc \in BOOLEAN, n \in 0..MaxFrames : TraceCall(cyc, n)
    \/ \E keep \in BOOLEAN : TraceVisit(keep)
    \/ TraceReturn

\* The thread inside trace() keeps running.
SpecTrace == InitTrace /\ [][NextTrace]_vars /\ WF_vars(NextTrace)

\* C13 (walk termination): every call of Trace::trace returns, also on a
\* frame chain that does not end, and the visitor is not called again once
\* it has answered "stop".
C13_WalkTermination ==
    /\ (walk.pc = "walking") ~> (walk.pc = "returned")
    /\ [][(walk.pc = "walking" /\ walk.stopped) => walk'.calls = walk.calls]_vars

---------------------------------------------------------------------------
(* C14: the symbol resolve() returns *)

\* The UTF-8 byte of a character of the file (all of them ASCII).
ByteOf(c) ==
    CASE c = "\t" -> 9
      [] c = " " -> 32
      [] c = "+" -> 43
      [] c \in {"0", "1", "2", "3", "4", "5", "6", "7", "8", "9"} -> 48 + HexVal(c)
      [] c \in {"a", "b", "c", "d", "e", "f"} -> 87 + HexVal(c)
      [] c = "g" -> 103
      [] c = "p" -> 112
      [] c = "x" -> 120
      [] c = "y" -> 121
      [] c = "z" -> 122

\* `self.0.as_bytes().to_vec()`
AsBytes(s) == [i \in 1..Len(s) |-> ByteOf(s[i])]

Absent == [some |-> FALSE, bytes |-> <<>>]

\* `.map(|s| PerfMapSymbol(s.to_string()))` on find's result, seen through
\* impl AsSymbol for PerfMapSymbol: name() is Some(bytes of the string),
\* addr(), lineno() and filename() are None.
ResolveResult(found) ==
    IF found.some
    THEN [some |-> TRUE,
          name |-> [some |-> TRUE, bytes |-> AsBytes(found.name)],
          addr |-> Absent, lineno |-> Absent, filename |-> Absent]
    ELSE [some |-> FALSE,
          name |-> Absent, addr |-> Absent, lineno |-> Absent, filename |-> Absent]

\* C14 (resolve is a pure wrapper of find): when resolve(addr) returns, its
\* result is find(addr) on the snapshot the resolver held at the read: a
\* symbol whose name is the bytes of the name find yields there, with address,
\* line number and filename absent; and absent when that snapshot is no-table
\* or holds no range for addr.
C14_ResolveIsFind ==
    \A t \in Threads :
        pc[t] = "done" =>
            LET found == FirstMatch(loc[t].view.ranges, loc[t].addr)
                sym == ResolveResult(loc[t].res)
            IN  IF loc[t].view.tag = "Some" /\ found.some
                THEN /\ sym.some
                     /\ sym.name = [some |-> TRUE, bytes |-> AsBytes(found.name)]
                     /\ sym.addr = Absent /\ sym.lineno = Absent /\ sym.filename = Absent
                ELSE ~sym.some

---------------------------------------------------------------------------
(* C15, C16, C19: who writes what *)

C16_CoreNeverWritesFile ==
    /\ [][\A t \in Threads :
            NewTouchOk(t) => /\ file'.exists
                             /\ file.exists => file' = file
                             /\ ~file.exists => file' = FileOf(<<>>)]_vars
    /\ [][file' # file =>
            \/ Producer
            \/ /\ ~file.exists
               /\ file' = FileOf(<<>>)
               /\ \E t \in Threads : NewTouchOk(t)]_vars

\* A resolver has been constructed, touch included, over a file whose two
\* lines were written before the watch was registered, and both lines are
\* still there.
C16_Witness ==
    /\ cell.state = "complete"
    /\ ~changed
    /\ file.lines = <<LineA, LineD>>
    /\ perf_map = PerfMapNew(file, overflow_checks)

---------------------------------------------------------------------------
(* C17: writes during construction *)

\* The producer has finished the line it was writing.
LinesComplete == \A i \in 1..Len(file.lines) : file.lines[i] \in CompleteLines

\* C17 (no update is lost during construction): when every write of the
\* producer happened before the watch was registered (before or while
\* PerfMapResolver::new ran), its last line is finished, and the resolver is
\* constructed with no event or reparse in flight, the snapshot is the parse
\* of the file as it now is.
C17_NoUpdateLostDuringConstruction ==
    (Settled /\ ~changed /\ LinesComplete) =>
        perf_map = PerfMapNew(file, overflow_checks)

---------------------------------------------------------------------------
(* C18: start + len *)

\* C18 (the range end never wraps): every range of every snapshot has
\* start <= end, and the watcher thread is never ended by a line whose
\* start + length exceeds the machine word.
C18_RangeEndNeverWraps ==
    /\ \A i \in 1..Len(perf_map.ranges) :
          perf_map.ranges[i].start <= perf_map.ranges[i].end
    /\ watcher # "panicked"

---------------------------------------------------------------------------
(* C19: the registry only grows *)

\* C19 (registry monotonicity): the enable flag, once set, stays set; the
\* singleton cell, once full, keeps the resolver it holds; and once the cell
\* is full (a get_resolver() call has returned the resolver) a get_resolver()
\* call never answers "not available", is never kept waiting, and returns
\* exactly the resolver of the cell, never an error.
C19_RegistryMonotone ==
    /\ [][should_use => should_use']_vars
    /\ [][cell.state = "complete" => cell' = cell]_vars
    /\ [](cell.state = "complete" => should_use)
    /\ [][\A t \in Threads :
            (cell.state = "complete" /\ GetResolver(t)) =>
                pc'[t] = "get_or_try_init" /\ ret'[t] = NoRet]_vars
    /\ [](\A t \in Threads :
            (cell.state = "complete" /\ pc[t] = "get_or_try_init") =>
                ENABLED GetOrTryInitHit(t))
    /\ [][\A t \in Threads :
            (cell.state = "complete" /\ pc[t] = "get_or_try_init" /\ pc'[t] # pc[t]) =>
                pc'[t] = "idle" /\ ret'[t] = Resolver(cell.id)]_vars

\* Both callers are back from get_resolver() with the resolver of the cell:
\* one of them constructed it, the other called later and got the same one.
C19_Witness ==
    /\ should_use
    /\ cell.state = "complete"
    /\ \A t \in Threads : pc[t] = "idle" /\ ret[t] = Resolver(cell.id)

======================================================================
